---- MODULE Spec2Model ----
(***************************************************************************)
(* A state-machine model of basic_regression/python/nhanes_ols.py: the     *)
(* module-level script that loads the NHANES file, keeps seven columns,    *)
(* drops the incomplete rows, fits a series of regression models and draws *)
(* fitted-mean and diagnostic plots.  One action per statement (a plot     *)
(* call is taken together with the axis-label calls that follow it); pc is *)
(* the source line of the next statement.                                  *)
(***************************************************************************)
EXTENDS Integers, Sequences, FiniteSets, TLC

VARIABLES
    pc,        \* source line of the next statement to run (710: past the end)
    status,    \* "running", "raised" (uncaught exception) or "done"
    raisedAt,  \* line of the statement that raised, 0 while none has
    trace,     \* lines of the statements started so far, in execution order
    reads,     \* <<line, fit line>>: statement `line` read `result` of that fit
    da,        \* the data frame `da`
    vars,      \* the list `vars`
    model,     \* the variable `model`
    result,    \* the variable `result`
    values,    \* the dict `values`
    fits,      \* every model constructed so far, in order
    preds,     \* every predict_functional call made so far, in order
    used,      \* columns read so far by a formula, a correlation or a statistic
    warned,    \* warnings issued so far
    excluded   \* for each row that line 112 removed, the columns it had missing

state == <<pc, status, raisedAt, trace, reads, da, vars, model, result, values,
           fits, preds, used, warned, excluded>>

-----------------------------------------------------------------------------
(* Bounds of the model *)

\* number of rows of the file behind `url`
NumRows == 3

-----------------------------------------------------------------------------
(* Cells, rows and frames *)

\* a cell of a frame or an entry of `values`: a number, a string or NaN
Num(n) == [t |-> "num", n |-> n, s |-> ""]
Str(s) == [t |-> "str", n |-> 0, s |-> s]
NaN == [t |-> "nan", n |-> 0, s |-> ""]

IsNA(cell) == cell.t = "nan"

None == [line |-> 0]

Range(seq) == {seq[i] : i \in DOMAIN seq}

\* the seven columns listed at line 111
VarsList ==
    <<"BPXSY1", "RIDAGEYR", "RIAGENDR", "RIDRETH1", "DMDEDUC2", "BMXBMI", "SMQ020">>

\* the columns of the file: the seven that are kept and one of those that are
\* not (diastolic blood pressure, lines 77-79)
CsvColumns == VarsList \o <<"BPXDI1">>

\* ages that occur in the file (line 504)
AgeValues == {18, 80}

\* one row of the file: `miss` names the column whose value is missing
\* ("" when none is), the gender code alternates with the row number
CsvRow(i, miss, age) ==
    [c \in Range(CsvColumns) |->
        IF c = miss THEN NaN
        ELSE IF c = "RIDAGEYR" THEN Num(age)
        ELSE IF c = "RIAGENDR" THEN Num(1 + (i % 2))
        ELSE IF c = "BPXSY1" THEN Num(100 + age)
        ELSE Num(1)]

EmptyFrame == [cols |-> <<>>, rows |-> <<>>]

RowIds == 1..NumRows

\* pd.read_csv(url): every row of the file, every column
read_csv(file) == [cols |-> CsvColumns, rows |-> file]

\* da[cols]: the listed columns only, same rows
Select(frame, cols) ==
    [cols |-> cols,
     rows |-> [i \in DOMAIN frame.rows |-> [c \in Range(cols) |-> frame.rows[i][c]]]]

\* DataFrame.dropna(): the rows with no missing value in any column
dropna(frame) ==
    LET keep == {i \in DOMAIN frame.rows :
                    \A c \in Range(frame.cols) : ~IsNA(frame.rows[i][c])}
    IN  [cols |-> frame.cols, rows |-> [i \in keep |-> frame.rows[i]]]

\* the columns in which row i of the frame has no value
MissingIn(frame, i) == {c \in Range(frame.cols) : IsNA(frame.rows[i][c])}

\* da[name] = column: a new column is appended, an existing one is overwritten
SetColumn(frame, name, col) ==
    [cols |-> IF name \in Range(frame.cols) THEN frame.cols
              ELSE Append(frame.cols, name),
     rows |-> [i \in DOMAIN frame.rows |->
                  [c \in Range(frame.cols) \cup {name} |->
                      IF c = name THEN col[i] ELSE frame.rows[i][c]]]]

\* del da[name]
DelColumn(frame, name) ==
    [cols |-> SelectSeq(frame.cols, LAMBDA c : c # name),
     rows |-> [i \in DOMAIN frame.rows |->
                  [c \in Range(frame.cols) \ {name} |-> frame.rows[i][c]]]]

Column(frame, name) == [i \in DOMAIN frame.rows |-> frame.rows[i][name]]

RECURSIVE SumOver(_, _)
SumOver(f, S) ==
    IF S = {} THEN 0
    ELSE LET i == CHOOSE j \in S : TRUE
         IN  f[i] + SumOver(f, S \ {i})

\* Series.mean() and the centred series, both kept multiplied by the number
\* of rows so that they stay integers; NaN is skipped by the sum
ColumnSum(col) ==
    SumOver([i \in DOMAIN col |-> IF IsNA(col[i]) THEN 0 ELSE col[i].n], DOMAIN col)

Count(col) == Cardinality({i \in DOMAIN col : ~IsNA(col[i])})

\* col - col.mean(), times the row count
Centred(col) ==
    [i \in DOMAIN col |->
        IF IsNA(col[i]) \/ Count(col) = 0 THEN NaN
        ELSE Num(Count(col) * col[i].n - ColumnSum(col))]

\* the sum of squared deviations that Series.std() takes the root of
SumSquares(col) ==
    LET cen == Centred(col)
    IN  SumOver([i \in DOMAIN col |-> IF IsNA(cen[i]) THEN 0 ELSE cen[i].n * cen[i].n],
                DOMAIN col)

\* (col - col.mean()) / col.std(): std() is NaN below two rows, and 0/0 is
\* NaN; otherwise the centred value over a positive number keeps its sign and
\* order, and is kept as the scaled centred value
Standardised(col) ==
    [i \in DOMAIN col |->
        IF Count(col) < 2 \/ SumSquares(col) = 0 THEN NaN ELSE Centred(col)[i]]

\* Series.replace(mapping): a value that is a key of the mapping is replaced
Replace(col, mapping) ==
    [i \in DOMAIN col |->
        IF col[i].t = "num" /\ col[i].n \in DOMAIN mapping
        THEN Str(mapping[col[i].n]) ELSE col[i]]

-----------------------------------------------------------------------------
(* Formulas.  A formula string is kept as the sequence of its tokens, and   *)
(* read as the formula parser reads it: outcome ~ term + term + ...         *)

\* "BPXSY1 ~ RIDAGEYR" (line 178)
Formula178 == <<"BPXSY1", "~", "RIDAGEYR">>

\* (variant: gender replaces age instead of joining it)
Formula265GenderOnly == <<"BPXSY1", "~", "RIAGENDRx">>

\* "BPXSY1 ~ RIDAGEYR + RIAGENDRx" (line 265)
Formula265 == <<"BPXSY1", "~", "RIDAGEYR", "+", "RIAGENDRx">>

\* "BPXSY1 ~ RIDAGEYR + BMXBMI + RIAGENDRx" (line 366)
Formula366 == <<"BPXSY1", "~", "RIDAGEYR", "+", "BMXBMI", "+", "RIAGENDRx">>

\* (variant: the GLM formula leaves gender out)
Formula558NoGender == <<"BPXSY1", "~", "RIDAGEYR", "+", "BMXBMI">>

\* "BPXSY1 ~ RIDAGEYR + BMXBMI + RIAGENDRx" (line 558)
Formula558 == <<"BPXSY1", "~", "RIDAGEYR", "+", "BMXBMI", "+", "RIAGENDRx">>

\* "BPXSY1 ~ RIDAGEYR + BMXBMI + RIAGENDRx" (line 580)
Formula580 == <<"BPXSY1", "~", "RIDAGEYR", "+", "BMXBMI", "+", "RIAGENDRx">>

\* "BPXSY1 ~ RIDAGEYR_z + I(RIDAGEYR_z**2) + RIAGENDRx" (line 613)
Formula613 ==
    <<"BPXSY1", "~", "RIDAGEYR_z", "+", "I", "(", "RIDAGEYR_z", "**", "2", ")",
      "+", "RIAGENDRx">>

\* (variant: BMI is the outcome and blood pressure a covariate)
Formula631Swapped ==
    <<"BMXBMI", "~", "bs", "(", "RIDAGEYR", ",", "5", ")", "+", "BPXSY1",
      "+", "RIAGENDRx">>

\* "BPXSY1 ~ bs(RIDAGEYR, 5) + BMXBMI + RIAGENDRx" (line 631)
Formula631 ==
    <<"BPXSY1", "~", "bs", "(", "RIDAGEYR", ",", "5", ")", "+", "BMXBMI",
      "+", "RIAGENDRx">>

\* "BPXSY1 ~ RIDAGEYR_cen*RIAGENDRx + BMXBMI" (line 687)
Formula687 == <<"BPXSY1", "~", "RIDAGEYR_cen", "*", "RIAGENDRx", "+", "BMXBMI">>

Punctuation == {"~", "+", "*", "**", ":", "(", ")", ","}
NumberTokens == {"0", "1", "2", "3", "4", "5", "6", "7", "8", "9"}
FunctionNames == {"I", "bs"}

\* the data columns a token sequence names
NamesIn(tokens) ==
    {tokens[i] : i \in DOMAIN tokens} \ (Punctuation \cup NumberTokens \cup FunctionNames)

RECURSIVE SplitTop(_, _, _, _, _)
\* the pieces of `tokens` between the separators that stand outside parentheses
SplitTop(tokens, sep, depth, cur, acc) ==
    IF tokens = <<>> THEN Append(acc, cur)
    ELSE LET t == Head(tokens)
         IN  IF t = sep /\ depth = 0
             THEN SplitTop(Tail(tokens), sep, 0, <<>>, Append(acc, cur))
             ELSE SplitTop(Tail(tokens), sep,
                           IF t = "(" THEN depth + 1
                           ELSE IF t = ")" THEN depth - 1 ELSE depth,
                           Append(cur, t), acc)

Sides(formula) == SplitTop(formula, "~", 0, <<>>, <<>>)

\* a formula needs one outcome name on the left and no empty term
Malformed(formula) ==
    \/ Len(Sides(formula)) # 2
    \/ Len(Sides(formula)[1]) # 1
    \/ \E t \in Range(SplitTop(Sides(formula)[2], "+", 0, <<>>, <<>>)) :
          \E f \in Range(SplitTop(t, "*", 0, <<>>, <<>>)) : f = <<>>

\* the outcome (endog_names)
Outcome(formula) == Sides(formula)[1][1]

RightSide(formula) == Sides(formula)[2]

RECURSIVE JoinColon(_, _)
\* the factors numbered by `picked`, in order, joined by ":"
JoinColon(factors, picked) ==
    LET i == CHOOSE j \in picked : \A k \in picked : j <= k
    IN  IF picked = {i} THEN factors[i]
        ELSE factors[i] \o <<":">> \o JoinColon(factors, picked \ {i})

\* a*b stands for a + b + a:b
ExpandTerm(term) ==
    LET factors == SplitTop(term, "*", 0, <<>>, <<>>)
    IN  {JoinColon(factors, picked) : picked \in (SUBSET DOMAIN factors) \ {{}}}

\* the terms of the right-hand side: the covariates of the model
Covariates(formula) ==
    UNION {ExpandTerm(t) : t \in Range(SplitTop(RightSide(formula), "+", 0, <<>>, <<>>))}

\* the data columns the right-hand side reads
CovariateColumns(formula) == NamesIn(RightSide(formula))

\* every data column the formula reads
FormulaColumns(formula) == NamesIn(formula)

\* the column of the file a column of `da` holds or is computed from
\* (lines 261, 612, 686)
BaseColumn(c) ==
    IF c = "RIAGENDRx" THEN "RIAGENDR"
    ELSE IF c \in {"RIDAGEYR_z", "RIDAGEYR_cen"} THEN "RIDAGEYR"
    ELSE c

-----------------------------------------------------------------------------
(* Library calls *)

\* the rows a model is fitted on: rows with a missing value in a column the
\* formula reads are dropped when the design matrices are built
ModelRows(frame, formula) ==
    {i \in DOMAIN frame.rows :
        \A c \in FormulaColumns(formula) : ~IsNA(frame.rows[i][c])}

\* from_formula raises on a malformed formula, on a name that is no column of
\* the frame, and on a frame that leaves no row
FormulaRaises(frame, formula) ==
    \/ Malformed(formula)
    \/ ~(FormulaColumns(formula) \subseteq Range(frame.cols))
    \/ ModelRows(frame, formula) = {}

\* sm.OLS.from_formula / sm.GLM.from_formula(formula, data=frame)
from_formula(line, kind, family, formula, frame) ==
    [line |-> line, kind |-> kind, family |-> family, formula |-> formula,
     endog |-> Outcome(formula),
     frame |-> frame,
     rows |-> ModelRows(frame, formula)]

\* the data a model is fitted to: its rows, in the columns its formula reads
FitData(fit) ==
    [i \in fit.rows |-> [c \in FormulaColumns(fit.formula) |-> fit.frame.rows[i][c]]]

\* predict_functional raises when the focus variable or a key of `values` is
\* no column of the model's frame, or the focus column holds strings
PredictRaises(frame, focus, vals) ==
    \/ ~((DOMAIN vals \cup {focus}) \subseteq Range(frame.cols))
    \/ \E i \in DOMAIN frame.rows : frame.rows[i][focus].t = "str"

\* the columns of the frame, other than the outcome, that neither `values`
\* nor the focus variable covers: predict_functional warns about them
Unmatched(frame, endog, focus, vals) ==
    (Range(frame.cols) \ {endog}) \ (DOMAIN vals \cup {focus})

\* what one predict_functional call saw
Prediction(line, res, frame, focus, vals) ==
    [line |-> line, fit |-> res.line, formula |-> res.formula, endog |-> res.endog,
     focus |-> focus, values |-> vals, cols |-> frame.cols,
     unmatched |-> Unmatched(frame, res.endog, focus, vals)]

-----------------------------------------------------------------------------
(* The dict `values` *)

EmptyDict == <<>>

\* the literal at lines 417-418
Values417 ==
    [RIAGENDRx |-> Str("Female"), RIAGENDR |-> Num(2), BMXBMI |-> Num(25),
     DMDEDUC2 |-> Num(1), RIDRETH1 |-> Num(1), SMQ020 |-> Num(1)]

\* the literal at lines 640-641
Values640 ==
    [RIAGENDRx |-> Str("Female"), RIAGENDR |-> Num(2), BMXBMI |-> Num(25),
     DMDEDUC2 |-> Num(1), RIDRETH1 |-> Num(1), SMQ020 |-> Num(1)]

\* values[key] = cell
DictSet(d, key, cell) ==
    [k \in DOMAIN d \cup {key} |-> IF k = key THEN cell ELSE d[k]]

\* del values[key]
DictDel(d, key) == [k \in DOMAIN d \ {key} |-> d[k]]

-----------------------------------------------------------------------------
(* Initial state *)

\* the rows that line 112 keeps
KeptRows(file) == dropna(Select(read_csv(file), VarsList)).rows

\* the file holds adults of different ages with every kept column recorded
\* (lines 71-79, 191-197, 504): the rows line 112 keeps have two ages or more
UsableFile(file) ==
    Cardinality({KeptRows(file)[i]["RIDAGEYR"].n : i \in DOMAIN KeptRows(file)}) >= 2

Init ==
    /\ pc = 92
    /\ status = "running"
    /\ raisedAt = 0
    /\ trace = <<>>
    /\ reads = <<>>
    /\ da = EmptyFrame
    /\ vars = <<>>
    /\ model = None
    /\ result = None
    /\ values = EmptyDict
    /\ fits = <<>>
    /\ preds = <<>>
    /\ used = {}
    /\ warned = {}
    /\ excluded = {}

-----------------------------------------------------------------------------
(* Control flow.  The script has no branch, loop, function or handler: a    *)
(* statement that returns is followed by the next statement of the file,    *)
(* and one that raises ends the run.                                        *)

\* how a call whose success depends on the installation or the network ends
Outcomes == {"ok", "raise"}

\* the statement at `line` returns and the one at `nxt` is next
Control(line, nxt) ==
    /\ pc = line
    /\ status = "running"
    /\ pc' = nxt
    /\ status' = IF nxt = 710 THEN "done" ELSE "running"
    /\ trace' = Append(trace, line)
    /\ raisedAt' = raisedAt

\* the statement at `line` raises: nothing catches it, the interpreter exits
Raise(line) ==
    /\ pc = line
    /\ status = "running"
    /\ pc' = line
    /\ status' = "raised"
    /\ raisedAt' = line
    /\ trace' = Append(trace, line)
    /\ UNCHANGED <<reads, da, vars, model, result, values, fits, preds, used, warned, excluded>>

\* an import statement
ImportStep(line, nxt) ==
    \E outcome \in Outcomes :
        IF outcome = "raise" THEN Raise(line)
        ELSE /\ Control(line, nxt)
             /\ UNCHANGED <<reads, da, vars, model, result, values, fits, preds,
                            used, warned, excluded>>

\* model = sm.<kind>.from_formula(formula, data=da), with no other argument
FromFormulaStep(line, nxt, kind, formula) ==
    IF FormulaRaises(da, formula) THEN Raise(line)
    ELSE /\ Control(line, nxt)
         /\ model' = from_formula(line, kind, "default", formula, da)
         /\ fits' = Append(fits, model')
         /\ used' = used \cup FormulaColumns(formula)
         /\ UNCHANGED <<reads, da, vars, result, values, preds, warned, excluded>>

\* result = model.fit()
FitStep(line, nxt) ==
    IF model = None THEN Raise(line)
    ELSE /\ Control(line, nxt)
         /\ result' = [line |-> line, model |-> model.line, kind |-> model.kind,
                       formula |-> model.formula, endog |-> model.endog,
                       rows |-> model.rows]
         /\ UNCHANGED <<reads, da, vars, model, values, fits, preds, used, warned, excluded>>

\* result.summary()
SummaryStep(line, nxt) ==
    IF result = None THEN Raise(line)
    ELSE /\ Control(line, nxt)
         /\ reads' = Append(reads, <<line, result.line>>)
         /\ UNCHANGED <<da, vars, model, result, values, fits, preds, used, warned, excluded>>

\* da[cols].corr(), da.<col>.std(): a statistic of columns of da
StatisticStep(line, nxt, cols) ==
    IF ~(cols \subseteq Range(da.cols)) THEN Raise(line)
    ELSE /\ Control(line, nxt)
         /\ used' = used \cup cols
         /\ UNCHANGED <<reads, da, vars, model, result, values, fits, preds, warned, excluded>>

\* np.corrcoef(da.BPXSY1, result.fittedvalues): the two must be equally long
CorrcoefStep(line, nxt, col) ==
    IF \/ result = None
       \/ col \notin Range(da.cols)
       \/ Cardinality(result.rows) # Cardinality(DOMAIN da.rows)
    THEN Raise(line)
    ELSE /\ Control(line, nxt)
         /\ reads' = Append(reads, <<line, result.line>>)
         /\ used' = used \cup {col}
         /\ UNCHANGED <<da, vars, model, result, values, fits, preds, warned, excluded>>

\* pr, cb, fv = predict_functional(result, focus, values=values, ...)
PredictStep(line, nxt, focus) ==
    IF result = None THEN Raise(line)
    ELSE IF PredictRaises(da, focus, values) THEN Raise(line)
    ELSE /\ Control(line, nxt)
         /\ preds' = Append(preds, Prediction(line, result, da, focus, values))
         /\ reads' = Append(reads, <<line, result.line>>)
         /\ warned' = IF Unmatched(da, result.endog, focus, values) = {} THEN warned
                      ELSE warned \cup {<<line, Unmatched(da, result.endog, focus, values)>>}
         /\ UNCHANGED <<da, vars, model, result, values, fits, used, excluded>>

\* sns.lineplot(fv, pr, ...) and the axis calls after it: draws the last
\* prediction; whether the positional call is accepted depends on the
\* installed plotting library
LinePlotStep(line, nxt) ==
    \E outcome \in Outcomes :
        IF preds = <<>> \/ outcome = "raise" THEN Raise(line)
        ELSE /\ Control(line, nxt)
             /\ UNCHANGED <<reads, da, vars, model, result, values, fits, preds,
                            used, warned, excluded>>

\* a diagnostic plot of `result`: sns.scatterplot of fitted values and
\* residuals, or plot_ccpr for one covariate (column = "" for the scatterplot)
ResultPlotStep(line, nxt, column) ==
    \E outcome \in Outcomes :
        IF \/ result = None
           \/ outcome = "raise"
           \/ (column # "" /\ column \notin CovariateColumns(result.formula))
        THEN Raise(line)
        ELSE /\ Control(line, nxt)
             /\ reads' = Append(reads, <<line, result.line>>)
             /\ UNCHANGED <<da, vars, model, result, values, fits, preds, used,
                            warned, excluded>>

\* result.plot_added_variable(column) and add_lowess: only a GLM result has
\* the method (lines 552-554)
AddedVariableStep(line, nxt, column) ==
    \E outcome \in Outcomes :
        IF \/ result = None
           \/ outcome = "raise"
           \/ result.kind # "GLM"
           \/ column \notin CovariateColumns(result.formula)
        THEN Raise(line)
        ELSE /\ Control(line, nxt)
             /\ reads' = Append(reads, <<line, result.line>>)
             /\ UNCHANGED <<da, vars, model, result, values, fits, preds, used,
                            warned, excluded>>

\* da[name] = column computed from da[source]
NewColumnStep(line, nxt, name, source, column) ==
    IF source \notin Range(da.cols) THEN Raise(line)
    ELSE /\ Control(line, nxt)
         /\ da' = SetColumn(da, name, column)
         /\ used' = used \cup {source}
         /\ UNCHANGED <<reads, vars, model, result, values, fits, preds, warned, excluded>>

\* values = {...}
ValuesLiteralStep(line, nxt, literal) ==
    /\ Control(line, nxt)
    /\ values' = literal
    /\ UNCHANGED <<reads, da, vars, model, result, fits, preds, used, warned, excluded>>

\* values[key] = cell
ValuesSetStep(line, nxt, key, cell) ==
    /\ Control(line, nxt)
    /\ values' = DictSet(values, key, cell)
    /\ UNCHANGED <<reads, da, vars, model, result, fits, preds, used, warned, excluded>>

-----------------------------------------------------------------------------
(* The statements of the script, in source order *)

\* lines 92-96
Import92 == ImportStep(92, 108)

\* the files that `url` may hold
Files ==
    {[i \in RowIds |-> CsvRow(i, miss[i], age[i])] :
        miss \in [RowIds -> {""} \cup Range(CsvColumns)], age \in [RowIds -> AgeValues]}

\* (variant: a failed download is caught and the run goes on with no data)
ReadCsv108Caught ==
    \E outcome \in Outcomes :
        IF outcome = "raise"
        THEN /\ pc = 108
             /\ status = "running"
             /\ pc' = 111
             /\ status' = "running"
             /\ raisedAt' = 108
             /\ trace' = Append(trace, 108)
             /\ da' = EmptyFrame
             /\ UNCHANGED <<reads, vars, model, result, values, fits, preds, used,
                            warned, excluded>>
        ELSE /\ Control(108, 111)
             /\ \E file \in Files :
                   /\ UsableFile(file)
                   /\ da' = read_csv(file)
             /\ UNCHANGED <<reads, vars, model, result, values, fits, preds, used,
                            warned, excluded>>

\* lines 107-108: da = pd.read_csv(url); the download may fail
ReadCsv108 ==
    \E outcome \in Outcomes :
        IF outcome = "raise" THEN Raise(108)
        ELSE /\ Control(108, 111)
             /\ \E file \in Files :
                   /\ UsableFile(file)
                   /\ da' = read_csv(file)
             /\ UNCHANGED <<reads, vars, model, result, values, fits, preds, used,
                            warned, excluded>>

\* line 111: vars = [...]
SetVars111 ==
    /\ Control(111, 112)
    /\ vars' = VarsList
    /\ UNCHANGED <<reads, da, model, result, values, fits, preds, used, warned, excluded>>

\* (variant: the columns are selected and no row is dropped)
SelectOnly112 ==
    IF ~(Range(vars) \subseteq Range(da.cols)) THEN Raise(112)
    ELSE /\ Control(112, 178)
         /\ da' = Select(da, vars)
         /\ UNCHANGED <<reads, vars, model, result, values, fits, preds, used, warned,
                        excluded>>

\* line 112: da = da[vars].dropna()
SelectDropna112 ==
    IF ~(Range(vars) \subseteq Range(da.cols)) THEN Raise(112)
    ELSE /\ Control(112, 178)
         /\ da' = dropna(Select(da, vars))
         /\ excluded' = {MissingIn(Select(da, vars), i) :
                            i \in DOMAIN da.rows \ DOMAIN dropna(Select(da, vars)).rows}
         /\ UNCHANGED <<reads, vars, model, result, values, fits, preds, used, warned>>

FromFormula178 == FromFormulaStep(178, 179, "OLS", Formula178)
\* (variant: the statement after the fit is the model construction again)
Fit179Again == FitStep(179, 178)

Fit179 == FitStep(179, 180)
Summary180 == SummaryStep(180, 204)

\* line 204: da.BPXSY1.std()
Std204 == StatisticStep(204, 227, {"BPXSY1"})

\* lines 227-228: da[["BPXSY1", "RIDAGEYR"]].corr()
Corr227 == StatisticStep(227, 240, {"BPXSY1", "RIDAGEYR"})

\* lines 240-241
Corrcoef240 == CorrcoefStep(240, 261, "BPXSY1")

\* the mapping at line 261
GenderLabels == (1 :> "Male") @@ (2 :> "Female")

\* line 261: da["RIAGENDRx"] = da.RIAGENDR.replace({1: "Male", 2: "Female"})
Relabel261 ==
    NewColumnStep(261, 265, "RIAGENDRx", "RIAGENDR",
                  Replace(Column(da, "RIAGENDR"), GenderLabels))

FromFormula265 == FromFormulaStep(265, 266, "OLS", Formula265)
Fit266 == FitStep(266, 267)
Summary267 == SummaryStep(267, 306)

\* line 306: da[["RIDAGEYR", "RIAGENDR"]].corr()
Corr306 == StatisticStep(306, 317, {"RIDAGEYR", "RIAGENDR"})

\* lines 317-318
Corrcoef317 == CorrcoefStep(317, 366, "BPXSY1")

FromFormula366 == FromFormulaStep(366, 367, "OLS", Formula366)
Fit367 == FitStep(367, 368)
Summary368 == SummaryStep(368, 378)

\* line 378: da[["RIDAGEYR", "RIAGENDR", "BMXBMI"]].corr()
Corr378 == StatisticStep(378, 412, {"RIDAGEYR", "RIAGENDR", "BMXBMI"})

Import412 == ImportStep(412, 417)
SetValues417 == ValuesLiteralStep(417, 420, Values417)
Predict420 == PredictStep(420, 423, "RIDAGEYR")

\* lines 423-426
LinePlot423 == LinePlotStep(423, 432)

\* line 432: del values["BMXBMI"]
DelValues432 ==
    IF "BMXBMI" \notin DOMAIN values THEN Raise(432)
    ELSE /\ Control(432, 433)
         /\ values' = DictDel(values, "BMXBMI")
         /\ UNCHANGED <<reads, da, vars, model, result, fits, preds, used, warned, excluded>>

\* line 433: values["RIDAGEYR"] = 50
SetValues433 == ValuesSetStep(433, 434, "RIDAGEYR", Num(50))
Predict434 == PredictStep(434, 437, "BMXBMI")

\* lines 437-440
LinePlot437 == LinePlotStep(437, 486)

\* lines 486-488: sns.scatterplot(result.fittedvalues, result.resid)
Scatter486 == ResultPlotStep(486, 512, "")

Import512 == ImportStep(512, 514)

\* lines 514-517: plot_ccpr(result, "RIDAGEYR", ax)
Ccpr514 == ResultPlotStep(514, 527, "RIDAGEYR")

\* lines 527-530: plot_ccpr(result, "BMXBMI", ax)
Ccpr527 == ResultPlotStep(527, 556, "BMXBMI")

Import556 == ImportStep(556, 558)
FromFormula558 == FromFormulaStep(558, 559, "GLM", Formula558)
Fit559 == FitStep(559, 561)

\* lines 561-563
AddedVariable561 == AddedVariableStep(561, 578, "RIDAGEYR")

Import578 == ImportStep(578, 580)
FromFormula580 == FromFormulaStep(580, 581, "GLM", Formula580)
Fit581 == FitStep(581, 583)

\* lines 583-585
AddedVariable583 == AddedVariableStep(583, 612, "BMXBMI")

\* line 612: da["RIDAGEYR_z"] = (da.RIDAGEYR - da.RIDAGEYR.mean()) / da.RIDAGEYR.std()
Standardise612 ==
    NewColumnStep(612, 613, "RIDAGEYR_z", "RIDAGEYR", Standardised(Column(da, "RIDAGEYR")))

FromFormula613 == FromFormulaStep(613, 614, "OLS", Formula613)
Fit614 == FitStep(614, 615)
Summary615 == SummaryStep(615, 631)

FromFormula631 == FromFormulaStep(631, 632, "OLS", Formula631)
Fit632 == FitStep(632, 633)
Summary633 == SummaryStep(633, 639)

\* (variant: the standardised age column is left in the frame)
KeepColumn639 ==
    /\ Control(639, 640)
    /\ UNCHANGED <<reads, da, vars, model, result, values, fits, preds, used, warned,
                   excluded>>

\* line 639: del da["RIDAGEYR_z"]
DelColumn639 ==
    IF "RIDAGEYR_z" \notin Range(da.cols) THEN Raise(639)
    ELSE /\ Control(639, 640)
         /\ da' = DelColumn(da, "RIDAGEYR_z")
         /\ UNCHANGED <<reads, vars, model, result, values, fits, preds, used, warned, excluded>>

SetValues640 == ValuesLiteralStep(640, 643, Values640)
Predict643 == PredictStep(643, 646, "RIDAGEYR")

\* lines 646-649
LinePlot646 == LinePlotStep(646, 686)

\* line 686: da["RIDAGEYR_cen"] = da.RIDAGEYR - da.RIDAGEYR.mean()
Centre686 ==
    NewColumnStep(686, 687, "RIDAGEYR_cen", "RIDAGEYR", Centred(Column(da, "RIDAGEYR")))

FromFormula687 == FromFormulaStep(687, 688, "OLS", Formula687)
Fit688 == FitStep(688, 689)
Summary689 == SummaryStep(689, 697)

\* line 697: values["RIAGENDRx"] = "Female"
SetValues697 == ValuesSetStep(697, 698, "RIAGENDRx", Str("Female"))

\* (variant: the missing value is stored under the BMI key)
SetValues698Bmi == ValuesSetStep(698, 699, "BMXBMI", NaN)

\* line 698: values["RIDAGEYR"] = np.nan
SetValues698 == ValuesSetStep(698, 699, "RIDAGEYR", NaN)
Predict699 == PredictStep(699, 701, "RIDAGEYR_cen")

\* line 701
LinePlot701 == LinePlotStep(701, 703)

\* line 703: values["RIAGENDRx"] = "Male"
SetValues703 == ValuesSetStep(703, 704, "RIAGENDRx", Str("Male"))
Predict704 == PredictStep(704, 706, "RIDAGEYR_cen")

\* lines 706-709: the last statements of the file
LinePlot706 == LinePlotStep(706, 710)

Next ==
    \/ Import92 \/ ReadCsv108 \/ SetVars111 \/ SelectDropna112
    \/ FromFormula178 \/ Fit179 \/ Summary180
    \/ Std204 \/ Corr227 \/ Corrcoef240
    \/ Relabel261 \/ FromFormula265 \/ Fit266 \/ Summary267
    \/ Corr306 \/ Corrcoef317
    \/ FromFormula366 \/ Fit367 \/ Summary368 \/ Corr378
    \/ Import412 \/ SetValues417 \/ Predict420 \/ LinePlot423
    \/ DelValues432 \/ SetValues433 \/ Predict434 \/ LinePlot437
    \/ Scatter486 \/ Import512 \/ Ccpr514 \/ Ccpr527
    \/ Import556 \/ FromFormula558 \/ Fit559 \/ AddedVariable561
    \/ Import578 \/ FromFormula580 \/ Fit581 \/ AddedVariable583
    \/ Standardise612 \/ FromFormula613 \/ Fit614 \/ Summary615
    \/ FromFormula631 \/ Fit632 \/ Summary633
    \/ DelColumn639 \/ SetValues640 \/ Predict643 \/ LinePlot646
    \/ Centre686 \/ FromFormula687 \/ Fit688 \/ Summary689
    \/ SetValues697 \/ SetValues698 \/ Predict699 \/ LinePlot701
    \/ SetValues703 \/ Predict704 \/ LinePlot706

Spec == Init /\ [][Next]_state

-----------------------------------------------------------------------------
(* Properties *)

\* the place of `line` in the trace (0 when it has not started)
PlaceOf(line) ==
    IF line \in Range(trace) THEN CHOOSE i \in DOMAIN trace : trace[i] = line ELSE 0

\* C1: the run is one straight line.  The statements started so far are in
\* strictly increasing source order (so none runs twice and none runs before
\* an earlier one); when the first model is built at line 178 the load at
\* line 108 and the selection and dropna at line 112 have run; and every
\* statement that reads `result` (summary, correlation with the fitted
\* values, prediction, plot) runs after the fit statement that produced it.
C1_StraightLine ==
    /\ \A i, j \in DOMAIN trace : i < j => trace[i] < trace[j]
    /\ 178 \in Range(trace) =>
          /\ 0 < PlaceOf(108)
          /\ PlaceOf(108) < PlaceOf(112)
          /\ PlaceOf(112) < PlaceOf(178)
    /\ \A k \in DOMAIN reads :
          /\ 0 < PlaceOf(reads[k][2])
          /\ PlaceOf(reads[k][2]) < PlaceOf(reads[k][1])
    /\ \A k \in DOMAIN preds :
          /\ 0 < PlaceOf(preds[k].fit)
          /\ PlaceOf(preds[k].fit) < PlaceOf(preds[k].line)

\* the run reached the end of the file, having fitted, summarised, predicted
\* and plotted on the way
C1_Witness ==
    /\ status = "done"
    /\ Len(trace) > 60
    /\ Len(reads) > 15
    /\ Len(preds) = 5

\* C2: nothing catches an exception.  Once a statement has raised, the run
\* has stopped at that statement: it is the last one started, no later
\* statement has run, and the run is neither continuing nor finished.
C2_RaiseStopsRun ==
    raisedAt # 0 =>
        /\ status = "raised"
        /\ pc = raisedAt
        /\ trace[Len(trace)] = raisedAt
        /\ \A i \in DOMAIN trace : trace[i] <= raisedAt

\* a plot call raised in the middle of the script, after three fits
C2_Witness ==
    /\ status = "raised"
    /\ raisedAt = 423
    /\ Len(fits) = 3
    /\ pc = 423

\* C3: systolic blood pressure is the outcome of every model built, and is
\* never a covariate, a focus variable or a key of `values`.
C3_OutcomeIsSBP ==
    /\ \A k \in DOMAIN fits :
          /\ fits[k].endog = "BPXSY1"
          /\ Outcome(fits[k].formula) = "BPXSY1"
          /\ "BPXSY1" \notin CovariateColumns(fits[k].formula)
    /\ \A k \in DOMAIN preds :
          /\ preds[k].focus # "BPXSY1"
          /\ "BPXSY1" \notin DOMAIN preds[k].values
    /\ "BPXSY1" \notin DOMAIN values

\* all eight models (six OLS, two GLM) and all five predictions were made
C3_Witness ==
    /\ Len(fits) = 8
    /\ Cardinality({k \in DOMAIN fits : fits[k].kind = "GLM"}) = 2
    /\ Len(preds) = 5

\* C4: incomplete rows are removed once, at line 112.  Right after line 112
\* the frame holds exactly the seven columns of `vars`; from then on no cell
\* of the frame, in a kept or a derived column, is missing; and every model
\* is built from all the rows the frame has now, so the frame's rows never
\* change and no fit drops a row.
C4_RowsDroppedOnce ==
    pc >= 178 =>
        /\ pc = 178 => da.cols = VarsList
        /\ Range(VarsList) \subseteq Range(da.cols)
        /\ \A i \in DOMAIN da.rows : MissingIn(da, i) = {}
        /\ \A k \in DOMAIN fits :
              /\ fits[k].rows = DOMAIN da.rows
              /\ fits[k].rows = DOMAIN fits[k].frame.rows
              /\ \A c \in Range(VarsList) : Column(fits[k].frame, c) = Column(da, c)

\* the file had an incomplete row, line 112 removed it, the three derived
\* columns were all computed, and all eight models were built
C4_Witness ==
    /\ status = "done"
    /\ excluded # {}
    /\ Cardinality(DOMAIN da.rows) < NumRows
    /\ Len(fits) = 8
    /\ {"RIAGENDRx", "RIDAGEYR_cen"} \subseteq Range(da.cols)
    /\ \E k \in DOMAIN fits : "RIDAGEYR_z" \in Range(fits[k].frame.cols)

\* C5: (the claim as stated) when the run is over, each of the seven kept
\* columns has been read by a formula, a correlation or a statistic, and each
\* row removed at line 112 was missing a value in a column that was read.
C5_KeptColumnsAllUsed ==
    status = "done" =>
        /\ Range(vars) \subseteq used
        /\ \A missing \in excluded : missing \cap used # {}

\* C6: the first three models are those of lines 178, 265 and 366, their
\* covariates are age; age and gender; age, BMI and gender, each set holding
\* the one before and one more; and no later model has fewer covariates
\* (terms of the right-hand side) than the third.
C6_IncreasingComplexity ==
    /\ Len(fits) >= 1 =>
          /\ fits[1].line = 178
          /\ Covariates(fits[1].formula) = {<<"RIDAGEYR">>}
    /\ Len(fits) >= 2 =>
          /\ fits[2].line = 265
          /\ Covariates(fits[1].formula) \subseteq Covariates(fits[2].formula)
          /\ Cardinality(Covariates(fits[2].formula)) =
                Cardinality(Covariates(fits[1].formula)) + 1
          /\ Covariates(fits[2].formula) = {<<"RIDAGEYR">>, <<"RIAGENDRx">>}
    /\ Len(fits) >= 3 =>
          /\ fits[3].line = 366
          /\ Covariates(fits[2].formula) \subseteq Covariates(fits[3].formula)
          /\ Cardinality(Covariates(fits[3].formula)) =
                Cardinality(Covariates(fits[2].formula)) + 1
          /\ Covariates(fits[3].formula) = {<<"RIDAGEYR">>, <<"BMXBMI">>, <<"RIAGENDRx">>}
    /\ \A k \in DOMAIN fits :
          k > 3 => Cardinality(Covariates(fits[k].formula)) >=
                      Cardinality(Covariates(fits[3].formula))

\* all eight models were built
C6_Witness ==
    /\ Len(fits) = 8
    /\ fits[8].line = 687
    /\ Cardinality(Covariates(fits[8].formula)) = 4

\* the fits made at the given line
FitsAt(line) == {k \in DOMAIN fits : fits[k].line = line}

\* C7: each GLM model (lines 558 and 580) is the model of the OLS fit of
\* line 366: the same formula, the same rows, the same values in the columns
\* the formula reads, the same outcome, and no family or link argument; and
\* the second GLM model is built from the very frame and formula of the first.
C7_GlmRepeatsOls ==
    \A g \in FitsAt(558) \cup FitsAt(580) :
        /\ fits[g].kind = "GLM"
        /\ fits[g].family = "default"
        /\ \E o \in FitsAt(366) :
              /\ fits[o].kind = "OLS"
              /\ fits[g].formula = fits[o].formula
              /\ fits[g].endog = fits[o].endog
              /\ fits[g].rows = fits[o].rows
              /\ FitData(fits[g]) = FitData(fits[o])
        /\ \A h \in FitsAt(558) :
              /\ fits[g].formula = fits[h].formula
              /\ fits[g].frame = fits[h].frame

\* both GLM models were built and fitted
C7_Witness ==
    /\ FitsAt(558) # {}
    /\ FitsAt(580) # {}
    /\ result # None
    /\ result.line = 581

\* C8: at every predict_functional call the keys of `values` and the focus
\* variable are together exactly the columns of the frame other than the
\* outcome; so no call raises for an absent column and none warns about a
\* column without a value.
C8_ValuesCoverFrame ==
    /\ \A k \in DOMAIN preds :
          /\ preds[k].line \in {420, 434, 643, 699, 704}
          /\ preds[k].endog = "BPXSY1"
          /\ DOMAIN preds[k].values \cup {preds[k].focus} =
                Range(preds[k].cols) \ {preds[k].endog}
          /\ preds[k].unmatched = {}
    /\ warned = {}
    /\ raisedAt \notin {420, 434, 643, 699, 704}

\* all five calls were made, the last two with the centred age column in the
\* frame and the standardised one deleted
C8_Witness ==
    /\ Len(preds) = 5
    /\ preds[5].line = 704
    /\ "RIDAGEYR_cen" \in Range(preds[5].cols)
    /\ "RIDAGEYR_z" \notin Range(preds[3].cols)
    /\ "RIAGENDRx" \in Range(preds[1].cols)

\* the predictions made at the given line
PredsAt(line) == {k \in DOMAIN preds : preds[k].line = line}

\* C9: the calls at lines 420, 434 and 643 fix gender at "Female" and BMI at
\* 25, age at 50, and BMI at 25; and at every call each column the model's
\* right-hand side reads, the focus variable aside, has a value in `values`
\* that is not missing.
C9_FixedValues ==
    /\ \A k \in PredsAt(420) :
          /\ preds[k].focus = "RIDAGEYR"
          /\ preds[k].values["RIAGENDRx"] = Str("Female")
          /\ preds[k].values["BMXBMI"] = Num(25)
    /\ \A k \in PredsAt(434) :
          /\ preds[k].focus = "BMXBMI"
          /\ preds[k].values["RIAGENDRx"] = Str("Female")
          /\ preds[k].values["RIDAGEYR"] = Num(50)
    /\ \A k \in PredsAt(643) :
          /\ preds[k].focus = "RIDAGEYR"
          /\ preds[k].values["RIAGENDRx"] = Str("Female")
          /\ preds[k].values["BMXBMI"] = Num(25)
    /\ \A k \in DOMAIN preds :
          \A c \in CovariateColumns(preds[k].formula) \ {preds[k].focus} :
              /\ c \in DOMAIN preds[k].values
              /\ ~IsNA(preds[k].values[c])

\* all five calls were made, the last two with a missing value stored in
\* `values` under a key the model does not read
C9_Witness ==
    /\ Len(preds) = 5
    /\ PredsAt(420) # {} /\ PredsAt(434) # {} /\ PredsAt(643) # {}
    /\ IsNA(preds[4].values["RIDAGEYR"])
    /\ preds[5].values["RIAGENDRx"] = Str("Male")

\* C10: (the claim as stated) the model built at line 613 has the mean
\* structure written at line 600: a term for age, a term for the square of
\* age and a term for BMI, and no other.
C10_PolynomialMeanStructure ==
    \A k \in FitsAt(613) :
        \E z \in CovariateColumns(fits[k].formula) :
            /\ BaseColumn(z) = "RIDAGEYR"
            /\ Covariates(fits[k].formula) =
                  {<<z>>, <<"I", "(", z, "**", "2", ")">>, <<"BMXBMI">>}

====
